---------------------------- MODULE Spec2Model ----------------------------
(***************************************************************************)
(* A model of routing/route/routing.py: the fuel-stop optimiser.           *)
(*                                                                         *)
(* Fixed-point units (Python floats in the source):                        *)
(*   coordinates            tenths of a degree                             *)
(*   unrounded distances    thousandths of a mile                          *)
(*   rounded distances      hundredths of a mile     (round(x, 2))         *)
(*   rounded fuel           hundredths of a gallon   (round(x, 2))         *)
(*   prices                 thousandths of a dollar                        *)
(*   total cost             hundredths of a dollar   (round(x, 2))         *)
(*                                                                         *)
(* A process serves requests on several threads (views.route_form calls    *)
(* optimize_route); the module-level GAS_STOPS and the GasStop objects it  *)
(* holds are shared by all of them.  A thread's steps are the calls that   *)
(* optimize_route makes, and one step per waypoint of the loop of          *)
(* find_optimal_gas_stops.                                                 *)
(***************************************************************************)
EXTENDS Integers, Sequences, FiniteSets, TLC

\* ------------------------------------------------------------------ bounds
\* Number of optimize_route calls the process serves in a behaviour, each on
\* a thread of its own.
MaxCalls == 2

Threads == 1..MaxCalls

\* --------------------------------------------------------------- constants
GAS_EFFICIENCY == 10
VEHICLE_RANGE == 500 * 1000
WAYPOINT_INTERVAL == 450 * 1000
GAS_SEARCH_RADIUS == 20 * 1000
DETOUR_ALLOWANCE == 10 * 1000
HIGHWAY_BONUS == 5 * 10

\* Python's None, where the other values are records
None == [none |-> TRUE]

\* ----------------------------------------------------------------- helpers
RECURSIVE SqrtSearch(_, _, _)
\* the largest s in lo..hi with s*s <= n (lo*lo <= n is given)
SqrtSearch(n, lo, hi) ==
  IF lo >= hi THEN lo
  ELSE LET mid == (lo + hi + 1) \div 2
       IN  IF mid * mid <= n THEN SqrtSearch(n, mid, hi)
                             ELSE SqrtSearch(n, lo, mid - 1)

ISqrt(n) == SqrtSearch(n, 0, 46340)

\* Python's round(x, 2) on a value held with `scale` times the resolution of
\* the result: to the nearest, halves to the even neighbour.
RoundDiv(x, scale) ==
  LET q == x \div scale
      r == x % scale
  IN  IF 2 * r < scale THEN q
      ELSE IF 2 * r > scale THEN q + 1
      ELSE IF q % 2 = 0 THEN q ELSE q + 1

Coordinates(lat, lon) == [latitude |-> lat, longitude |-> lon]

\* str: a sequence of characters
HasSubstring(needle, s) ==
  \E i \in 1..(Len(s) - Len(needle) + 1) :
     \A j \in 1..Len(needle) : s[i + j - 1] = needle[j]


\* ------------------------------------------------------------------ inputs
\* What the external collaborators hand to the optimiser: the routes the
\* directions service returns (get_route) and the content of the dataset
\* file data/gas_stations.json.  A GasStop's name, city and state are carried
\* through unread and are left out.

Route(points, miles, box) ==
  [origin_coordinates      |-> points[1],
   destination_coordinates |-> points[Len(points)],
   distance                |-> miles * 1000,
   geometry                |-> points,
   bbox                    |-> box]

\* 300 miles: within the vehicle's range
RShort == Route(<<Coordinates(0, 0), Coordinates(1, 30), Coordinates(0, 56)>>,
                300, <<0, 0, 56, 1>>)
\* exactly the vehicle's range
REdge == Route(<<Coordinates(0, 0), Coordinates(1, 50), Coordinates(0, 94)>>,
               500, <<0, 0, 94, 1>>)
\* two waypoints at two vertices far apart
RLong == Route(<<Coordinates(0, 0), Coordinates(0, 80), Coordinates(1, 90),
                 Coordinates(0, 165), Coordinates(0, 175), Coordinates(0, 200)>>,
               1060, <<0, 0, 200, 1>>)
\* one long edge holds both targets: both waypoints are its first vertex
RSparse == Route(<<Coordinates(0, 0), Coordinates(0, 3), Coordinates(0, 200)>>,
                 1060, <<0, 0, 200, 0>>)
\* out and back: the second waypoint lies near the start of the route
RLoop == Route(<<Coordinates(0, 0), Coordinates(0, 84), Coordinates(0, 86),
                 Coordinates(0, 3), Coordinates(0, 2)>>,
               901, <<0, 0, 86, 0>>)
\* the service's distance exceeds the length of the geometry
RDrift == Route(<<Coordinates(0, 0), Coordinates(0, 80), Coordinates(1, 90)>>,
                1350, <<0, 0, 90, 1>>)

Routes == {RShort, REdge, RLong, RSparse, RLoop, RDrift}

Highway == <<"1", " ", "I", "-", "4", "0">>
Street  == <<"9", " ", "M", "a", "i", "n">>

Station(id, addr, lat, lon, price) ==
  [truckstop_id     |-> id,
   address          |-> addr,
   coordinates      |-> Coordinates(lat, lon),
   price_per_gallon |-> price]

S1 == Station("s1", Highway, 1, 80, 3500)
S2 == Station("s2", Street, 0, 82, 3480)
S3 == Station("s3", Highway, 0, 166, 3530)
S4 == Station("s4", Street, 1, 165, 3480)
SA == Station("sa", Highway, 0, 1, 3550)
SB == Station("sb", Street, 0, 4, 3480)
SL == Station("sl", Highway, 0, 85, 3459)
SC == Station("sc", Street, 0, 1, 3400)
\* within the search radius of a waypoint of RLong, outside its bounding box
SOut == Station("so", Street, 0 - 2, 80, 3000)

Datasets ==
  { <<>>,
    <<S1, S2, SOut, S3, S4, SA, SB, SL, SC>>,
    <<S2, S1, SA, SB>>,
    <<S4, S3>> }

\* A road of eleven vertices around a lake, and a point at the lake:
\* (2.0, 2.0).  By the squared difference of the degrees the eleventh vertex
\* ties with four of the first ten and is farther than the other six; in
\* miles it is the nearest of all (17.33 against 17.40 and more).
Winding ==
  <<Coordinates(22, 22), Coordinates(23, 21), Coordinates(23, 20),
    Coordinates(23, 19), Coordinates(22, 18), Coordinates(18, 18),
    Coordinates(17, 19), Coordinates(17, 20), Coordinates(17, 21),
    Coordinates(18, 22), Coordinates(21, 23)>>

Lake == Coordinates(20, 20)

AllPoints ==
  (UNION { {r.geometry[i] : i \in 1..Len(r.geometry)} : r \in Routes })
  \cup (UNION { {d[i].coordinates : i \in 1..Len(d)} : d \in Datasets })
  \cup {Winding[i] : i \in 1..Len(Winding)} \cup {Lake}

Geometries == { r.geometry : r \in Routes }

\* ---------------------------------------------------------------- geometry
\* geopy.distance.geodesic(a, b).miles, in thousandths of a mile: the length
\* of the straight line between the two points on a plane with 6.9 miles to a
\* tenth of a degree of latitude and 5.3 miles to a tenth of a degree of
\* longitude (a tenth of a mile under the root, two more digits by the
\* remainder).
GeodesicMiles ==
  [a \in AllPoints |->
     [b \in AllPoints |->
        LET dlat == 69 * (a.latitude - b.latitude)
            dlon == 53 * (a.longitude - b.longitude)
            n    == dlat * dlat + dlon * dlon
            s    == ISqrt(n)
            rem  == 10000 * (n - s * s)
            t    == CHOOSE k \in 0..99 :
                      /\ 200 * s * k + k * k <= rem
                      /\ k = 99 \/ 200 * s * (k + 1) + (k + 1) * (k + 1) > rem
        IN  100 * s + t] @@ <<>>] @@ <<>>

geodesic(a, b) == GeodesicMiles[a][b]

RECURSIVE calculate_cumulative_distances(_)
calculate_cumulative_distances(route_points) ==
  IF Len(route_points) <= 1 THEN <<0>>
  ELSE LET n         == Len(route_points)
           distances == calculate_cumulative_distances(SubSeq(route_points, 1, n - 1))
       IN  Append(distances,
                  distances[n - 1] + geodesic(route_points[n - 1], route_points[n]))


\* calculate_cumulative_distances on the geometries of the inputs, computed
\* once.
CumulativeDistances ==
  [g \in Geometries |-> calculate_cumulative_distances(g)] @@ <<>>

\* find_point_at_distance giving the bracket's upper end
find_point_at_distance_upper(route_points, cumulative_distances, target_distance) ==
  LET brackets == { i \in 1..(Len(cumulative_distances) - 1) :
                      /\ cumulative_distances[i] <= target_distance
                      /\ target_distance <= cumulative_distances[i + 1] }
  IN  IF brackets = {} THEN None
      ELSE route_points[(CHOOSE i \in brackets : \A j \in brackets : i <= j) + 1]

\* The first bracket [cumulative[i], cumulative[i+1]] that holds the target
\* gives route_points[i]; None when there is none.
find_point_at_distance(route_points, cumulative_distances, target_distance) ==
  LET brackets == { i \in 1..(Len(cumulative_distances) - 1) :
                      /\ cumulative_distances[i] <= target_distance
                      /\ target_distance <= cumulative_distances[i + 1] }
  IN  IF brackets = {} THEN None
      ELSE route_points[CHOOSE i \in brackets : \A j \in brackets : i <= j]

RECURSIVE WaypointLoop(_, _, _, _)
\* the while loop of calculate_waypoints
WaypointLoop(route, cumulative_distances, target_distance, waypoints) ==
  IF target_distance < route.distance
  THEN LET waypoint_coords == find_point_at_distance(route.geometry,
                                                     cumulative_distances,
                                                     target_distance)
       IN  WaypointLoop(route, cumulative_distances,
                        target_distance + WAYPOINT_INTERVAL,
                        IF waypoint_coords # None
                        THEN Append(waypoints, waypoint_coords)
                        ELSE waypoints)
  ELSE waypoints

\* calculate_waypoints returning early only below the range
calculate_waypoints_below_range(route) ==
  IF route.distance < VEHICLE_RANGE THEN <<>>
  ELSE WaypointLoop(route, CumulativeDistances[route.geometry],
                    WAYPOINT_INTERVAL, <<>>)

calculate_waypoints(route) ==
  IF route.distance <= VEHICLE_RANGE THEN <<>>
  ELSE WaypointLoop(route, CumulativeDistances[route.geometry],
                    WAYPOINT_INTERVAL, <<>>)

\* --------------------------------------------------------- nearest vertex
\* Stage 1: (squared planar difference, index) of every vertex, sorted.
EuclideanDistSquared(target_point, route_point) ==
  LET lat_diff == target_point.latitude - route_point.latitude
      lon_diff == target_point.longitude - route_point.longitude
  IN  lat_diff * lat_diff + lon_diff * lon_diff

SortedCandidates(target_point, route_points) ==
  LET n        == Len(route_points)
      dist(i)  == EuclideanDistSquared(target_point, route_points[i])
      Lt(i, j) == dist(i) < dist(j) \/ (dist(i) = dist(j) /\ i < j)
      rank(i)  == Cardinality({ j \in 1..n : Lt(j, i) })
  IN  [k \in 1..n |-> CHOOSE i \in 1..n : rank(i) = k - 1]

RECURSIVE GeodesicScan(_, _, _, _, _, _)
\* Stage 2: the loop over top_candidates; a later candidate wins only when
\* strictly nearer.
GeodesicScan(target_point, route_points, top_candidates, k, best_index, min_geodesic) ==
  IF k > Len(top_candidates) THEN best_index
  ELSE LET point_index   == top_candidates[k]
           geodesic_dist == geodesic(target_point, route_points[point_index])
       IN  IF min_geodesic < 0 \/ geodesic_dist < min_geodesic
           THEN GeodesicScan(target_point, route_points, top_candidates, k + 1,
                             point_index, geodesic_dist)
           ELSE GeodesicScan(target_point, route_points, top_candidates, k + 1,
                             best_index, min_geodesic)

\* Indices are 1-based here (0-based in the source); a negative min_geodesic
\* is float("inf").
find_closest_route_point_index(target_point, route_points) ==
  LET candidates     == SortedCandidates(target_point, route_points)
      top_candidates == SubSeq(candidates, 1,
                               IF Len(candidates) < 10 THEN Len(candidates) ELSE 10)
  IN  GeodesicScan(target_point, route_points, top_candidates, 1, 1, 0 - 1)

\* ---------------------------------------------------------------- segments
\* find_closest_route_point_index on the geometries and points of the inputs,
\* computed once.
ClosestIndex ==
  [g \in Geometries |->
     [p \in AllPoints |-> find_closest_route_point_index(p, g)] @@ <<>>] @@ <<>>

calculate_route_segment_distance(start_point, end_point, route_points, cumulative_distances) ==
  LET start_index == ClosestIndex[route_points][start_point]
      end_index   == ClosestIndex[route_points][end_point]
      route_distance == cumulative_distances[end_index]
                          - cumulative_distances[start_index]
  IN  route_distance + DETOUR_ALLOWANCE

\* calculate_route_segments with a chain that ends at the last stop
calculate_route_segments_to_last_stop(route, gas_stops) ==
  LET cumulative_distances == CumulativeDistances[route.geometry]
      all_points == <<route.origin_coordinates>>
                    \o [i \in 1..Len(gas_stops) |-> gas_stops[i].coordinates]
  IN  [segment_index \in 1..(Len(all_points) - 1) |->
         LET start_point == all_points[segment_index]
             end_point   == all_points[segment_index + 1]
             distance    == calculate_route_segment_distance(
                              start_point, end_point, route.geometry,
                              cumulative_distances)
         IN  [start_coordinates  |-> start_point,
              end_coordinates    |-> end_point,
              distance           |-> RoundDiv(distance, 10),
              gas_needed_gallons |-> RoundDiv(distance, 10 * GAS_EFFICIENCY)]]

\* gas_stops: the chosen stops' records.  distance is rounded to hundredths
\* of a mile, distance / GAS_EFFICIENCY to hundredths of a gallon.
calculate_route_segments(route, gas_stops) ==
  LET cumulative_distances == CumulativeDistances[route.geometry]
      all_points == <<route.origin_coordinates>>
                    \o [i \in 1..Len(gas_stops) |-> gas_stops[i].coordinates]
                    \o <<route.destination_coordinates>>
  IN  [segment_index \in 1..(Len(all_points) - 1) |->
         LET start_point == all_points[segment_index]
             end_point   == all_points[segment_index + 1]
             distance    == calculate_route_segment_distance(
                              start_point, end_point, route.geometry,
                              cumulative_distances)
         IN  [start_coordinates  |-> start_point,
              end_coordinates    |-> end_point,
              distance           |-> RoundDiv(distance, 10),
              gas_needed_gallons |-> RoundDiv(distance, 10 * GAS_EFFICIENCY)]]

RECURSIVE CostLoop(_, _, _, _)
\* the for loop of calculate_total_gas_cost; total_cost in 1/100000 dollar
CostLoop(segments, gas_stops, segment_index, total_cost) ==
  IF segment_index > Len(segments) THEN total_cost
  ELSE CostLoop(segments, gas_stops, segment_index + 1,
                IF segment_index <= Len(gas_stops)
                THEN total_cost
                       + segments[segment_index].gas_needed_gallons
                           * gas_stops[segment_index].price_per_gallon
                ELSE total_cost)

\* calculate_total_gas_cost pricing at each stop the segment that leaves it
calculate_total_gas_cost_leaving(segments, gas_stops) ==
  IF gas_stops = <<>> THEN 0
  ELSE RoundDiv(CostLoop(Tail(segments), gas_stops, 1, 0), 1000)

calculate_total_gas_cost(segments, gas_stops) ==
  IF gas_stops = <<>> THEN 0
  ELSE RoundDiv(CostLoop(segments, gas_stops, 1, 0), 1000)


\* ------------------------------------------------------------------- state
VARIABLES
  dataset,        \* the records of data/gas_stations.json
  lists,          \* lists[g]: the GasStop objects built by the g-th load
  GAS_STOPS,      \* the module global: 0 is the initial [], g is lists[g]
  th,             \* th[t]: the frame of thread t's optimize_route call
  calls,          \* optimize_route calls started so far
  catalogs,       \* the lists get_gas_stops has returned so far
  returned,       \* the OptimalRoutes returned so far, as values
  closest,        \* a call of find_closest_route_point_index on its own
  output_file,    \* FuelStopPreprocessor.OUTPUT_FILE on disk
  progress_file,  \* FuelStopPreprocessor.PROGRESS_FILE on disk
  processor,      \* the running preprocessing job: what it holds in memory
  interrupts      \* how many times the preprocessing job was interrupted

\* The state outside optimize_route, which no step of it touches.
outside == <<closest, output_file, progress_file, processor, interrupts>>

vars == <<dataset, lists, GAS_STOPS, th, calls, catalogs, returned, outside>>

\* A GasStop object is named by the list that holds it and its place there.
Ref(g, i) == [list |-> g, index |-> i]
Deref(heap, ref) == heap[ref.list][ref.index]
Stops(heap, refs) == [k \in 1..Len(refs) |-> Deref(heap, refs[k])]
ListOf(g) == IF g = 0 THEN <<>> ELSE lists[g]

NoCall == [pc |-> "idle", target_point |-> None, route_points |-> <<>>,
           best_index |-> 0]

\* A file that does not exist, and the job before main() runs.
NoOutput == [exists |-> FALSE, fuel_stops |-> <<>>]
NoProgress == [exists |-> FALSE, last_processed_index |-> 0]
NotRunning == [pc |-> "main", start_index |-> 0, fuel_stops |-> <<>>, i |-> 0]

Idle ==
  [pc |-> "idle", route |-> None, waypoints |-> <<>>, gas_stops |-> 0,
   filtered_gas_stops |-> <<>>, waypoint_index |-> 1, best_stops |-> <<>>,
   optimal_stops |-> <<>>, all_nearby_stations |-> <<>>]

Init ==
  /\ dataset \in Datasets
  /\ lists = <<>>
  /\ GAS_STOPS = 0
  /\ th = [t \in Threads |-> Idle]
  /\ calls = 0
  /\ catalogs = {}
  /\ returned = {}
  /\ closest = NoCall
  /\ output_file = NoOutput
  /\ progress_file = NoProgress
  /\ processor = NotRunning
  /\ interrupts = 0

\* ------------------------------------------------------- station selection
\* The body of get_nearby_gas_stops after its call of get_gas_stops: the
\* objects of list g inside the route's bbox, bounds included.
get_nearby_gas_stops(route, g, gas_stops) ==
  LET min_lon == route.bbox[1]
      min_lat == route.bbox[2]
      max_lon == route.bbox[3]
      max_lat == route.bbox[4]
      Inside(i) ==
        LET lat == gas_stops[i].coordinates.latitude
            lon == gas_stops[i].coordinates.longitude
        IN  min_lat <= lat /\ lat <= max_lat /\ min_lon <= lon /\ lon <= max_lon
      kept == { i \in 1..Len(gas_stops) : Inside(i) }
      RECURSIVE Collect(_)
      Collect(i) == IF i > Len(gas_stops) THEN <<>>
                    ELSE (IF i \in kept THEN <<Ref(g, i)>> ELSE <<>>) \o Collect(i + 1)
  IN  Collect(1)

\* The inner loop of find_optimal_gas_stops: the filtered stops within
\* GAS_SEARCH_RADIUS of the waypoint, in the order of the filtered list.
NearbyStops(heap, waypoint, filtered_gas_stops) ==
  SelectSeq(filtered_gas_stops,
            LAMBDA ref : geodesic(waypoint, Deref(heap, ref).coordinates)
                           <= GAS_SEARCH_RADIUS)

IsHighway(stop) == HasSubstring(<<"I", "-">>, stop.address)

RECURSIVE ApplyHighwayBonus(_, _, _)
\* the for loop of select_cheapest_gas_stop: it writes the objects' prices
ApplyHighwayBonus(heap, candidate_stops, k) ==
  IF k > Len(candidate_stops) THEN heap
  ELSE LET ref  == candidate_stops[k]
           stop == Deref(heap, ref)
       IN  ApplyHighwayBonus(
             IF IsHighway(stop)
             THEN [heap EXCEPT ![ref.list][ref.index].price_per_gallon =
                                  @ - HIGHWAY_BONUS]
             ELSE heap,
             candidate_stops, k + 1)

\* Python's min(seq, key, default=None): the first of the minimal elements.
MinByPrice(heap, candidate_stops) ==
  IF candidate_stops = <<>> THEN None
  ELSE LET price(k) == Deref(heap, candidate_stops[k]).price_per_gallon
           k0 == CHOOSE k \in 1..Len(candidate_stops) :
                   /\ \A j \in 1..Len(candidate_stops) : price(k) <= price(j)
                   /\ \A j \in 1..(k - 1) : price(j) > price(k)
       IN  candidate_stops[k0]

\* select_cheapest_gas_stop comparing the prices before the bonus is applied
select_cheapest_gas_stop_before_bonus(heap, candidate_stops) ==
  [heap      |-> ApplyHighwayBonus(heap, candidate_stops, 1),
   best_stop |-> MinByPrice(heap, candidate_stops)]

\* The objects after the call, and the object returned (None for no object).
select_cheapest_gas_stop(heap, candidate_stops) ==
  LET after == ApplyHighwayBonus(heap, candidate_stops, 1)
  IN  [heap |-> after, best_stop |-> MinByPrice(after, candidate_stops)]


\* ----------------------------------------------------------------- actions
\* A step of a thread ends where the thread next reads or writes what the
\* threads share: GAS_STOPS and the GasStop objects.

\* The t-th call of optimize_route, on thread t; get_route returns the route
\* r and calculate_waypoints places the waypoints.
GetRoute(t, r) ==
  /\ th[t].pc = "idle"
  /\ calls = t - 1
  /\ calls' = calls + 1
  /\ th' = [th EXCEPT ![t] = [Idle EXCEPT !.pc = "get_gas_stops",
                                           !.route = r,
                                           !.waypoints = calculate_waypoints(r)]]
  /\ UNCHANGED <<outside, dataset, lists, GAS_STOPS, catalogs, returned>>

\* get_gas_stops, "if GAS_STOPS: return GAS_STOPS" (a list is true when it
\* is not empty); get_nearby_gas_stops filters what it returns.
GetGasStopsCached(t) ==
  /\ th[t].pc = "get_gas_stops"
  /\ ListOf(GAS_STOPS) # <<>>
  /\ th' = [th EXCEPT ![t].gas_stops = GAS_STOPS,
                      ![t].filtered_gas_stops =
                         get_nearby_gas_stops(th[t].route, GAS_STOPS,
                                              ListOf(GAS_STOPS)),
                      ![t].pc = "find_optimal_gas_stops"]
  /\ catalogs' = catalogs \cup {GAS_STOPS}
  /\ UNCHANGED <<outside, dataset, lists, GAS_STOPS, calls, returned>>

\* get_gas_stops found GAS_STOPS false and goes on to read the file.
GetGasStopsMiss(t) ==
  /\ th[t].pc = "get_gas_stops"
  /\ ListOf(GAS_STOPS) = <<>>
  /\ th' = [th EXCEPT ![t].pc = "load"]
  /\ UNCHANGED <<outside, dataset, lists, GAS_STOPS, calls, catalogs, returned>>

\* get_gas_stops reads the file, builds one GasStop per record, binds the
\* new list to GAS_STOPS and returns it; get_nearby_gas_stops filters it.
GetGasStopsLoad(t) ==
  /\ th[t].pc = "load"
  /\ lists' = Append(lists, dataset)
  /\ GAS_STOPS' = Len(lists) + 1
  /\ th' = [th EXCEPT ![t].gas_stops = Len(lists) + 1,
                      ![t].filtered_gas_stops =
                         get_nearby_gas_stops(th[t].route, Len(lists) + 1, dataset),
                      ![t].pc = "find_optimal_gas_stops"]
  /\ catalogs' = catalogs \cup {Len(lists) + 1}
  /\ UNCHANGED <<outside, dataset, calls, returned>>

\* the loop of find_optimal_gas_stops without "if best_stop"
AppendBestAlways(optimal_stops, best_stop) == Append(optimal_stops, best_stop)

\* What one pass of the loop of find_optimal_gas_stops appends to
\* optimal_stops.
AppendBest(optimal_stops, best_stop) ==
  IF best_stop # None THEN Append(optimal_stops, best_stop) ELSE optimal_stops

\* One pass of "for waypoint in waypoints" of find_optimal_gas_stops.
\* best_stops keeps each pass's best_stop (the source does not).
FindOptimalGasStops(t) ==
  /\ th[t].pc = "find_optimal_gas_stops"
  /\ th[t].waypoint_index <= Len(th[t].waypoints)
  /\ LET waypoint     == th[t].waypoints[th[t].waypoint_index]
         nearby_stops == NearbyStops(lists, waypoint, th[t].filtered_gas_stops)
         selected     == select_cheapest_gas_stop(lists, nearby_stops)
     IN  /\ lists' = selected.heap
         /\ th' = [th EXCEPT
              ![t].all_nearby_stations = Append(@, nearby_stops),
              ![t].best_stops = Append(@, selected.best_stop),
              ![t].optimal_stops = AppendBest(@, selected.best_stop),
              ![t].waypoint_index = @ + 1]
  /\ UNCHANGED <<outside, dataset, GAS_STOPS, calls, catalogs, returned>>

\* The OptimalRoute optimize_route builds once the loop is over, as the
\* caller reads it on return; waypoints and best_stops are kept beside it.
OptimalRoute(t) ==
  LET optimal_gas_stops == Stops(lists, th[t].optimal_stops)
      segments          == calculate_route_segments(th[t].route, optimal_gas_stops)
      total_cost        == calculate_total_gas_cost(segments, optimal_gas_stops)
  IN  [total_distance    |-> th[t].route.distance,
       total_gas_cost    |-> total_cost,
       gas_stops         |-> optimal_gas_stops,
       route_coordinates |-> th[t].route.geometry,
       segments          |-> segments,
       nearby_stations   |-> [k \in 1..Len(th[t].all_nearby_stations) |->
                                Stops(lists, th[t].all_nearby_stations[k])],
       route             |-> th[t].route,
       waypoints         |-> th[t].waypoints,
       best_stops        |-> th[t].best_stops]

\* find_optimal_gas_stops returns; calculate_route_segments,
\* calculate_total_gas_cost; optimize_route returns.
Return(t) ==
  /\ th[t].pc = "find_optimal_gas_stops"
  /\ th[t].waypoint_index > Len(th[t].waypoints)
  /\ returned' = returned \cup {OptimalRoute(t)}
  /\ th' = [th EXCEPT ![t] = [Idle EXCEPT !.pc = "done"]]
  /\ UNCHANGED <<outside, dataset, lists, GAS_STOPS, calls, catalogs>>

Next ==
  \E t \in Threads :
    \/ \E r \in Routes : GetRoute(t, r)
    \/ GetGasStopsCached(t)
    \/ GetGasStopsMiss(t)
    \/ GetGasStopsLoad(t)
    \/ FindOptimalGasStops(t)
    \/ Return(t)

Spec == Init /\ [][Next]_vars

\* The calls one after the other: a call starts when no other is running.
Running(t) == th[t].pc \notin {"idle", "done"}

SeqNext ==
  \E t \in Threads :
    /\ \A u \in Threads \ {t} : ~Running(u)
    /\ \/ \E r \in Routes : GetRoute(t, r)
       \/ GetGasStopsCached(t)
       \/ GetGasStopsMiss(t)
       \/ GetGasStopsLoad(t)
       \/ FindOptimalGasStops(t)
       \/ Return(t)

SeqSpec == Init /\ [][SeqNext]_vars

\* ------------------------------------------- the nearest vertex, on its own
\* find_closest_route_point_index called with any of the points on any of
\* the polylines.
Polylines == Geometries \cup {Winding}

FindClosestInit ==
  /\ dataset = <<>>
  /\ lists = <<>>
  /\ GAS_STOPS = 0
  /\ th = [t \in Threads |-> Idle]
  /\ calls = 0
  /\ catalogs = {}
  /\ returned = {}
  /\ closest \in [pc : {"called"}, target_point : AllPoints,
                  route_points : Polylines, best_index : {0}]
  /\ output_file = NoOutput
  /\ progress_file = NoProgress
  /\ processor = NotRunning
  /\ interrupts = 0

FindClosestRoutePointIndex ==
  /\ closest.pc = "called"
  /\ closest' = [closest EXCEPT
       !.pc = "returned",
       !.best_index = find_closest_route_point_index(closest.target_point,
                                                     closest.route_points)]
  /\ UNCHANGED <<dataset, lists, GAS_STOPS, th, calls, catalogs, returned>>
  /\ UNCHANGED <<output_file, progress_file, processor, interrupts>>

ClosestSpec == FindClosestInit /\ [][FindClosestRoutePointIndex]_vars

\* ------------------------------------------------- the preprocessing job
\* scripts/preprocess_all_fuel_stops.py.  A row of the CSV file is named by
\* its index (from 0, as in the source), and so is the fuel stop built of it.

\* Rows of the CSV file.
NumRows == 101
\* Interruptions of the job in a behaviour.
MaxInterrupts == 2

\* "if (i + 1) % 50 == 0"
CheckpointEvery == 50

\* geocode_address finds coordinates for the row's "City, State, USA": the
\* same answer each time it is asked.
Geocodable(i) == i % 7 # 3

\* The state of the serving process, which the job does not touch.
serving == <<dataset, lists, GAS_STOPS, th, calls, catalogs, returned, closest>>

\* main(): load_progress, then process_all_fuel_stops up to its loop, whose
\* passes with i < start_index do nothing.
Main ==
  /\ processor.pc = "main"
  /\ LET start_index == IF progress_file.exists
                        THEN progress_file.last_processed_index ELSE 0
         fuel_stops  == IF output_file.exists /\ start_index > 0
                        THEN output_file.fuel_stops ELSE <<>>
     IN  processor' = [pc |-> "row", start_index |-> start_index,
                       fuel_stops |-> fuel_stops, i |-> start_index]
  /\ UNCHANGED <<serving, output_file, progress_file, interrupts>>

\* One pass of the loop, up to the checkpoint if this row is at one.
ProcessRow ==
  /\ processor.pc = "row"
  /\ processor.i < NumRows
  /\ processor' = [processor EXCEPT
       !.fuel_stops = IF Geocodable(processor.i)
                      THEN Append(@, processor.i) ELSE @,
       !.pc = IF (processor.i + 1) % CheckpointEvery = 0
              THEN "checkpoint" ELSE "row",
       !.i  = IF (processor.i + 1) % CheckpointEvery = 0 THEN @ ELSE @ + 1]
  /\ UNCHANGED <<serving, output_file, progress_file, interrupts>>

\* The checkpoint writes OUTPUT_FILE ...
WriteCheckpoint ==
  /\ processor.pc = "checkpoint"
  /\ output_file' = [exists |-> TRUE, fuel_stops |-> processor.fuel_stops]
  /\ processor' = [processor EXCEPT !.pc = "save_progress"]
  /\ UNCHANGED <<serving, progress_file, interrupts>>

\* ... and then save_progress(i + 1) writes PROGRESS_FILE.
SaveProgress ==
  /\ processor.pc = "save_progress"
  /\ progress_file' = [exists |-> TRUE,
                       last_processed_index |-> processor.i + 1]
  /\ processor' = [processor EXCEPT !.pc = "row", !.i = @ + 1]
  /\ UNCHANGED <<serving, output_file, interrupts>>

\* After the loop: the last write of OUTPUT_FILE.
WriteOutput ==
  /\ processor.pc = "row"
  /\ processor.i >= NumRows
  /\ output_file' = [exists |-> TRUE, fuel_stops |-> processor.fuel_stops]
  /\ processor' = [processor EXCEPT !.pc = "remove_progress"]
  /\ UNCHANGED <<serving, progress_file, interrupts>>

\* "if os.path.exists(PROGRESS_FILE): os.remove(PROGRESS_FILE)"
RemoveProgress ==
  /\ processor.pc = "remove_progress"
  /\ progress_file' = NoProgress
  /\ processor' = [processor EXCEPT !.pc = "done"]
  /\ UNCHANGED <<serving, output_file, interrupts>>

\* The job is killed: what it held in memory is gone, the files stay, and
\* main() can run again.
Interrupt ==
  /\ processor.pc \notin {"main", "done"}
  /\ interrupts < MaxInterrupts
  /\ interrupts' = interrupts + 1
  /\ processor' = NotRunning
  /\ UNCHANGED <<serving, output_file, progress_file>>

JobInit ==
  /\ dataset = <<>>
  /\ lists = <<>>
  /\ GAS_STOPS = 0
  /\ th = [t \in Threads |-> Idle]
  /\ calls = 0
  /\ catalogs = {}
  /\ returned = {}
  /\ closest = NoCall
  /\ output_file = NoOutput
  /\ progress_file = NoProgress
  /\ processor = NotRunning
  /\ interrupts = 0

JobNext ==
  \/ Main
  \/ ProcessRow
  \/ WriteCheckpoint
  \/ SaveProgress
  \/ WriteOutput
  \/ RemoveProgress
  \/ Interrupt

JobSpec == JobInit /\ [][JobNext]_vars

\* ------------------------------------------------------------------ claims
\* The record of the dataset a GasStop was built from.
Original(stop) ==
  CHOOSE d \in {dataset[i] : i \in 1..Len(dataset)} :
    d.truckstop_id = stop.truckstop_id

\* The waypoints of a returned plan that have the station among their
\* candidates.
CandidateAt(o, id) ==
  { k \in 1..Len(o.nearby_stations) :
      \E j \in 1..Len(o.nearby_stations[k]) :
         o.nearby_stations[k][j].truckstop_id = id }

AllStops(o) ==
  UNION { {o.nearby_stations[k][j] : j \in 1..Len(o.nearby_stations[k])} :
          k \in 1..Len(o.nearby_stations) }

\* C1: a highway-accessible station that is a candidate at two or more
\* waypoints of a run ends the run priced at its original price less
\* HIGHWAY_BONUS, and a chosen stop carries that price.
C1_DiscountedOnce ==
  \A o \in returned :
    /\ \A s \in AllStops(o) :
         (IsHighway(s) /\ Cardinality(CandidateAt(o, s.truckstop_id)) >= 2)
           => s.price_per_gallon = Original(s).price_per_gallon - HIGHWAY_BONUS
    /\ \A k \in 1..Len(o.gas_stops) :
         (IsHighway(o.gas_stops[k])
            /\ Cardinality(CandidateAt(o, o.gas_stops[k].truckstop_id)) >= 2)
           => o.gas_stops[k].price_per_gallon
                = Original(o.gas_stops[k]).price_per_gallon - HIGHWAY_BONUS

\* What a caller compares of two plans.
Outcome(o) ==
  [gas_stops      |-> [k \in 1..Len(o.gas_stops) |-> o.gas_stops[k].truckstop_id],
   prices         |-> [k \in 1..Len(o.gas_stops) |-> o.gas_stops[k].price_per_gallon],
   total_gas_cost |-> o.total_gas_cost]

\* C2: two calls of optimize_route in one process that are given the same
\* route return the same stops, the same stop prices and the same total cost.
C2_SameRouteSameResult ==
  \A o1, o2 \in returned : o1.route = o2.route => Outcome(o1) = Outcome(o2)

\* C3: the dataset file is read and the catalog built at most once in the
\* process, and every call of get_gas_stops returns that one list.
C3_LoadedOnce ==
  /\ Len(lists) <= 1
  /\ Cardinality(catalogs) <= 1

\* The chain [origin, stop_1, ..., stop_n, destination] of a returned plan.
Chain(o) ==
  <<o.route.origin_coordinates>>
  \o [k \in 1..Len(o.gas_stops) |-> o.gas_stops[k].coordinates]
  \o <<o.route.destination_coordinates>>

\* C4: calculate_route_segments returns len(chosen stops) + 1 segments, and
\* segment k runs from the k-th to the (k+1)-th point of the chain.
C4_SegmentsFollowChain ==
  \A o \in returned :
    /\ Len(o.segments) = Len(o.gas_stops) + 1
    /\ \A k \in 1..Len(o.segments) :
         /\ o.segments[k].start_coordinates = Chain(o)[k]
         /\ o.segments[k].end_coordinates = Chain(o)[k + 1]

C4_Witness ==
  /\ \E o \in returned : Len(o.gas_stops) = 2 /\ Len(o.segments) = 3
  /\ \E o \in returned : o.gas_stops = <<>> /\ Len(o.segments) = 1

RECURSIVE SumOfProducts(_, _, _)
\* the sum over i in 1..n of segments[i].gas_needed_gallons times
\* gas_stops[i].price_per_gallon
SumOfProducts(segments, gas_stops, n) ==
  IF n = 0 THEN 0
  ELSE SumOfProducts(segments, gas_stops, n - 1)
         + segments[n].gas_needed_gallons * gas_stops[n].price_per_gallon

\* C5: calculate_total_gas_cost is the 2-decimal rounding of the sum over
\* i < len(stops) of segments[i].gas_needed_gallons * stops[i].price_per_gallon:
\* for the segments and stops of every returned plan, and for every first a
\* segments and first b <= a stops of them; so a segment that has no stop at
\* its index adds nothing, and the result is 0 when there are no stops.
C5_CostPairsByIndex ==
  \A o \in returned :
    /\ o.total_gas_cost
         = RoundDiv(SumOfProducts(o.segments, o.gas_stops, Len(o.gas_stops)), 1000)
    /\ \A a \in 0..Len(o.segments) : \A b \in 0..Len(o.gas_stops) :
         b <= a =>
           calculate_total_gas_cost(SubSeq(o.segments, 1, a),
                                    SubSeq(o.gas_stops, 1, b))
             = RoundDiv(SumOfProducts(o.segments, o.gas_stops, b), 1000)

C5_Witness ==
  \E o \in returned :
    /\ Len(o.gas_stops) = 2
    /\ Len(o.segments) = 3
    /\ o.segments[3].gas_needed_gallons > 0
    /\ o.total_gas_cost > 0

\* The price select_cheapest_gas_stop compares: the price less HIGHWAY_BONUS
\* for a highway-accessible stop.
PriceCompared(stop) ==
  IF IsHighway(stop) THEN stop.price_per_gallon - HIGHWAY_BONUS
  ELSE stop.price_per_gallon

\* The candidates of the pass that thread t's loop is about to make.
NextCandidates(t) ==
  NearbyStops(lists, th[t].waypoints[th[t].waypoint_index],
              th[t].filtered_gas_stops)

InLoop(t) ==
  /\ th[t].pc = "find_optimal_gas_stops"
  /\ th[t].waypoint_index <= Len(th[t].waypoints)

\* C6: select_cheapest_gas_stop returns the candidate whose price, after
\* HIGHWAY_BONUS is taken off each highway-accessible candidate, is minimal,
\* the earliest in list order among equals, and nothing for an empty list.
C6_SelectsCheapest ==
  \A t \in Threads :
    InLoop(t) =>
      LET candidate_stops == NextCandidates(t)
          before == Stops(lists, candidate_stops)
          best   == select_cheapest_gas_stop(lists, candidate_stops).best_stop
      IN  IF candidate_stops = <<>> THEN best = None
          ELSE \E k \in 1..Len(candidate_stops) :
                 /\ best = candidate_stops[k]
                 /\ \A j \in 1..Len(before) :
                      PriceCompared(before[k]) <= PriceCompared(before[j])
                 /\ \A j \in 1..(k - 1) :
                      PriceCompared(before[j]) > PriceCompared(before[k])

\* a highway station at 3.50 is chosen over a street station at 3.48
C6_Witness ==
  \E t \in Threads :
    /\ th[t].pc = "find_optimal_gas_stops"
    /\ th[t].waypoint_index = 2
    /\ th[t].best_stops # <<>>
    /\ th[t].best_stops[1] # None
    /\ LET best == Deref(lists, th[t].best_stops[1])
       IN  /\ IsHighway(best)
           /\ best.price_per_gallon = 3500 - HIGHWAY_BONUS
           /\ \E j \in 1..Len(th[t].all_nearby_stations[1]) :
                LET other == Deref(lists, th[t].all_nearby_stations[1][j])
                IN  ~IsHighway(other) /\ other.price_per_gallon = 3480

\* The k with a target distance k * WAYPOINT_INTERVAL below the route's
\* distance, and those of them that some bracket of the cumulative distances
\* holds.
Targets(route) ==
  { k \in 1..(route.distance \div WAYPOINT_INTERVAL + 1) :
      k * WAYPOINT_INTERVAL < route.distance }

Brackets(route, k) ==
  LET cumulative == CumulativeDistances[route.geometry]
  IN  { i \in 1..(Len(cumulative) - 1) :
          /\ cumulative[i] <= k * WAYPOINT_INTERVAL
          /\ k * WAYPOINT_INTERVAL <= cumulative[i + 1] }

Bracketed(route) == { k \in Targets(route) : Brackets(route, k) # {} }

\* C7: for a route longer than VEHICLE_RANGE, calculate_waypoints returns, in
\* increasing target order, one vertex for each target k * WAYPOINT_INTERVAL
\* below route.distance that a bracket holds: the vertex at the smallest i
\* with cumulative[i] <= target <= cumulative[i+1]; a target that no bracket
\* holds gives no waypoint.
C7_WaypointsAtBrackets ==
  \A t \in Threads :
    (Running(t) /\ th[t].route.distance > VEHICLE_RANGE) =>
      LET route == th[t].route
          found == Bracketed(route)
      IN  /\ Len(th[t].waypoints) = Cardinality(found)
          /\ \A k \in found :
               LET place == Cardinality({ j \in found : j <= k })
                   i     == CHOOSE i \in Brackets(route, k) :
                              \A j \in Brackets(route, k) : i <= j
               IN  th[t].waypoints[place] = route.geometry[i]

\* a route with two waypoints, and a route with a target that no bracket holds
C7_Witness ==
  /\ \E o \in returned : Len(o.waypoints) = 2 /\ o.waypoints[1] # o.waypoints[2]
  /\ \E o \in returned :
       /\ o.waypoints # <<>>
       /\ Cardinality(Targets(o.route)) > Len(o.waypoints)

\* C8: a route no longer than VEHICLE_RANGE has no waypoints, no chosen
\* stops, one segment from the origin to the destination and total cost 0,
\* whatever the catalog holds.
C8_WithinRange ==
  \A o \in returned :
    o.route.distance <= VEHICLE_RANGE =>
      /\ o.waypoints = <<>>
      /\ o.gas_stops = <<>>
      /\ o.nearby_stations = <<>>
      /\ Len(o.segments) = 1
      /\ o.segments[1].start_coordinates = o.route.origin_coordinates
      /\ o.segments[1].end_coordinates = o.route.destination_coordinates
      /\ o.total_gas_cost = 0

C8_Witness ==
  /\ dataset # <<>>
  /\ \E o \in returned : o.route.distance = VEHICLE_RANGE
  /\ \E o \in returned : o.route.distance < VEHICLE_RANGE

\* C9: the chosen stops are, in waypoint order, the selections made at the
\* waypoints whose candidate list is not empty, nearby_stations has one
\* entry for each waypoint, and the plan is built all the same.
C9_StopsAreSelections ==
  /\ \A t \in Threads :
       th[t].pc = "find_optimal_gas_stops" =>
         /\ Len(th[t].all_nearby_stations) = th[t].waypoint_index - 1
         /\ Len(th[t].best_stops) = th[t].waypoint_index - 1
         /\ \A k \in 1..Len(th[t].best_stops) :
              (th[t].best_stops[k] = None) <=> (th[t].all_nearby_stations[k] = <<>>)
         /\ th[t].optimal_stops
              = SelectSeq(th[t].best_stops, LAMBDA best : best # None)
         /\ Len(th[t].optimal_stops) <= Len(th[t].waypoints)
  /\ \A o \in returned :
       /\ Len(o.nearby_stations) = Len(o.waypoints)
       /\ Len(o.gas_stops)
            = Cardinality({ k \in 1..Len(o.waypoints) : o.nearby_stations[k] # <<>> })
       /\ Len(o.segments) = Len(o.gas_stops) + 1

\* a plan with a stop for its second waypoint and none for its first
C9_Witness ==
  \E o \in returned :
    /\ Len(o.waypoints) = 2
    /\ o.nearby_stations[1] = <<>>
    /\ o.nearby_stations[2] # <<>>
    /\ Len(o.gas_stops) = 1

\* C10: every segment calculate_route_segments returns has a distance and a
\* fuel need that are not negative.
C10_SegmentsNotNegative ==
  \A o \in returned :
    \A k \in 1..Len(o.segments) :
      /\ o.segments[k].distance >= 0
      /\ o.segments[k].gas_needed_gallons >= 0

\* C11: the vertex find_closest_route_point_index returns is as near to the
\* target, in miles, as any vertex of the polyline, also when the polyline
\* has more than 10 vertices.
C11_TrueNearest ==
  closest.pc = "returned" =>
    \A i \in 1..Len(closest.route_points) :
      geodesic(closest.target_point, closest.route_points[closest.best_index])
        <= geodesic(closest.target_point, closest.route_points[i])

\* C12: in every returned OptimalRoute, gas_stops[i] is the station selected
\* for the i-th waypoint and one of nearby_stations[i], for every i up to
\* len(gas_stops).
C12_StopsAlignedWithWaypoints ==
  \A o \in returned :
    \A i \in 1..Len(o.gas_stops) :
      /\ o.best_stops[i] # None
      /\ Deref(lists, o.best_stops[i]).truckstop_id = o.gas_stops[i].truckstop_id
      /\ \E j \in 1..Len(o.nearby_stations[i]) :
           o.nearby_stations[i][j].truckstop_id = o.gas_stops[i].truckstop_id

\* The output of a run that is never interrupted: the rows that geocode, in
\* the order of the CSV file.
UninterruptedOutput == SelectSeq([k \in 1..NumRows |-> k - 1], Geocodable)

\* C13: however the job was interrupted and started again, when it ends
\* OUTPUT_FILE holds every row that geocodes exactly once, in the order of
\* the CSV file, as after a run that is never interrupted.
C13_ResumedOutputExact ==
  processor.pc = "done" =>
    /\ output_file.exists
    /\ output_file.fuel_stops = UninterruptedOutput

=============================================================================
